---- MODULE Spec2Model ----
(***************************************************************************)
(* A model of ftdu.py, the host-side client of the ftDuino board.          *)
(*                                                                         *)
(* Text (str, and the bytes on the serial line) is a sequence of           *)
(* one-character strings, so that slicing, lower-casing, formatting and    *)
(* int() are computed character by character as Python computes them.      *)
(* A Python value is a record [t, v]: t is the type, v the payload.        *)
(***************************************************************************)
EXTENDS Integers, Sequences, FiniteSets, TLC

VARIABLES
    devs,      \* number of serial ports list_ports.grep() matched in the last scan
    scans,     \* ftduino_find_by_name calls made so far
    scan,      \* the running ftduino_iter generator and its consumer
    probes,    \* paths the running generator handed to serial.Serial, in order
    pairs,     \* the (path, name) pairs the running generator has yielded, in order
    dconn,     \* discovery connections that are open (a set of paths)
    found,     \* what the last ftduino_find_by_name returned
    conn,      \* the facade's self._conn: "none", "open" or "closed"
    connPath,  \* the path self._conn was opened on
    opens,     \* the paths __init__ handed to serial.Serial, in order
    scope,     \* "none", "failed" (__init__ raised), "plain" (ftd = FtDuino()),
               \* "with" (inside the with block), "exited" (the block was left)
    closes,    \* number of close() calls on self._conn
    withExit,  \* the exception __exit__ was given and the one the with statement re-raised
    pc,        \* where the client is
    calls,     \* facade calls begun on this connection
    cur,       \* the facade call in progress (or the last one)
    io,        \* what the current (or last) call did on self._conn, in order
    commRet,   \* what comm() returned to the current (or last) call
    out,       \* how the last call of the client ended
    outbuf,    \* host output buffer: commands written, not yet transmitted
    devq,      \* commands the device has received and not yet answered
    inbuf,     \* host input buffer: chunks received from the device, unread
    spy,       \* TRUE when a spy records the session
    history    \* the spy's record: one entry per finished facade call, in order

discovery == <<devs, scans, scan, probes, pairs, dconn, found>>
lifecycle == <<conn, connPath, opens, scope, closes, withExit>>
exchange  == <<calls, cur, io, commRet>>
link      == <<outbuf, devq, inbuf>>
spying    == <<spy, history>>
vars      == <<discovery, lifecycle, exchange, link, spying, pc, out>>

----------------------------------------------------------------------------
(* Bounds of the model *)

MaxCalls   == 2   \* facade calls per connection
MaxDevices == 2   \* serial ports matching the vendor:product pattern
MaxScans   == 1   \* ftduino_find_by_name calls before construction

----------------------------------------------------------------------------
(* Text *)

NL == "\n"
CR == "\r"

UpperAlpha == <<"A","B","C","D","E","F","G","H","I","J","K","L","M",
                "N","O","P","Q","R","S","T","U","V","W","X","Y","Z">>
LowerAlpha == <<"a","b","c","d","e","f","g","h","i","j","k","l","m",
                "n","o","p","q","r","s","t","u","v","w","x","y","z">>
DigitChars == <<"0","1","2","3","4","5","6","7","8","9">>

LowerChar(c) ==
    IF \E i \in 1..26 : UpperAlpha[i] = c
    THEN LowerAlpha[CHOOSE i \in 1..26 : UpperAlpha[i] = c]
    ELSE c

\* str.lower()
Lower(s) == [i \in 1..Len(s) |-> LowerChar(s[i])]

\* s[:-2]
DropLast2(s) == IF Len(s) <= 2 THEN <<>> ELSE SubSeq(s, 1, Len(s) - 2)

IsDigit(c) == \E i \in 1..10 : DigitChars[i] = c
DigitVal(c) == (CHOOSE i \in 1..10 : DigitChars[i] = c) - 1

RECURSIVE Dec(_)
Dec(n) == IF n < 10 THEN <<DigitChars[n + 1]>>
          ELSE Dec(n \div 10) \o <<DigitChars[(n % 10) + 1]>>

\* '{0}'.format(n) of an int
IntStr(n) == IF n < 0 THEN <<"-">> \o Dec(0 - n) ELSE Dec(n)

IsSpace(c) == c \in {" ", "\t", NL, CR}

RECURSIVE StripLeft(_)
StripLeft(s) == IF s # <<>> /\ IsSpace(Head(s)) THEN StripLeft(Tail(s)) ELSE s

RECURSIVE StripRight(_)
StripRight(s) ==
    IF s # <<>> /\ IsSpace(s[Len(s)]) THEN StripRight(SubSeq(s, 1, Len(s) - 1)) ELSE s

RECURSIVE DigitsVal(_)
DigitsVal(s) == IF s = <<>> THEN 0
                ELSE 10 * DigitsVal(SubSeq(s, 1, Len(s) - 1)) + DigitVal(s[Len(s)])

----------------------------------------------------------------------------
(* Python values *)

PyNone        == [t |-> "none",  v |-> <<>>]
PyInt(n)      == [t |-> "int",   v |-> n]
PyBool(b)     == [t |-> "bool",  v |-> IF b THEN 1 ELSE 0]
PyStr(s)      == [t |-> "str",   v |-> s]
PyTuple(a, b) == [t |-> "tuple", v |-> <<a, b>>]

IsNum(x) == x.t \in {"int", "bool"}

\* a == b
PyEq(a, b) ==
    \/ IsNum(a) /\ IsNum(b) /\ a.v = b.v
    \/ a.t = "str" /\ b.t = "str" /\ a.v = b.v
    \/ a.t = "none" /\ b.t = "none"
    \/ a.t = "tuple" /\ b.t = "tuple" /\ a.v = b.v

\* a in (c1, c2, ...)
PyIn(a, cs) == \E i \in 1..Len(cs) : PyEq(a, cs[i])

\* '{0}'.format(x)
Str(x) ==
    CASE x.t = "int"  -> IntStr(x.v)
      [] x.t = "bool" -> IF x.v = 1 THEN <<"T","r","u","e">> ELSE <<"F","a","l","s","e">>
      [] x.t = "str"  -> x.v
      [] x.t = "none" -> <<"N","o","n","e">>
      [] OTHER        -> <<"(",")">>

\* The outcome of an expression: a value or a raised exception.
Ok(x)      == [ok |-> TRUE,  val |-> x,      exc |-> "none"]
Raise(e)   == [ok |-> FALSE, val |-> PyNone, exc |-> e]

\* int(x)
PyIntOf(x) ==
    CASE IsNum(x) -> Ok(PyInt(x.v))
      [] x.t = "str" ->
            LET s == StripRight(StripLeft(x.v))
                signed == s # <<>> /\ Head(s) \in {"+", "-"}
                d == IF signed THEN Tail(s) ELSE s
            IN  IF d # <<>> /\ \A i \in 1..Len(d) : IsDigit(d[i])
                THEN Ok(PyInt(IF signed /\ Head(s) = "-" THEN 0 - DigitsVal(d)
                                                        ELSE DigitsVal(d)))
                ELSE Raise("ValueError")
      [] OTHER -> Raise("TypeError")

----------------------------------------------------------------------------
(* Module constants of ftdu.py *)

INPUT_MODE_SWITCH     == <<"s","w","i","t","c","h">>
INPUT_MODE_RESISTANCE == <<"r","e","s","i","s","t","a","n","c","e">>
INPUT_MODE_VOLTAGE    == <<"v","o","l","t","a","g","e">>

VALID_INPUT_MODES ==
    <<PyStr(INPUT_MODE_SWITCH), PyStr(INPUT_MODE_RESISTANCE), PyStr(INPUT_MODE_VOLTAGE)>>

MOTOR_OFF   == <<"o","f","f">>
MOTOR_LEFT  == <<"l","e","f","t">>
MOTOR_RIGHT == <<"r","i","g","h","t">>
MOTOR_BRAKE == <<"b","r","a","k","e">>

VALID_MOTOR_DIRECTIONS ==
    <<PyStr(MOTOR_LEFT), PyStr(MOTOR_RIGHT), PyStr(MOTOR_BRAKE), PyStr(MOTOR_OFF)>>

COUNTER_EDGE_NONE    == <<"n","o","n","e">>
COUNTER_EDGE_RISING  == <<"r","i","s","i","n","g">>
COUNTER_EDGE_FALLING == <<"f","a","l","l","i","n","g">>
COUNTER_EDGE_ANY     == <<"a","n","y">>

VALID_COUNTER_MODES ==
    <<PyStr(COUNTER_EDGE_NONE), PyStr(COUNTER_EDGE_RISING),
      PyStr(COUNTER_EDGE_FALLING), PyStr(COUNTER_EDGE_ANY)>>

OFF  == 0
HIGH == 1
LOW  == 2
MIN  == OFF
MAX  == 512

VALID_OUTPUT_MODES == <<PyInt(OFF), PyInt(HIGH), PyInt(LOW)>>

----------------------------------------------------------------------------
(* The facade's methods up to their call of comm(): the exception raised   *)
(* by validation, or the command handed to comm().                         *)

RECURSIVE FormatArgs(_)
FormatArgs(args) ==
    IF args = <<>> THEN <<>> ELSE <<" ">> \o Str(Head(args)) \o FormatArgs(Tail(args))

\* '<verb> {0} {1} ...'.format(args)
Format(verb, args) == verb \o FormatArgs(args)

Invalid(e) == [exc |-> e,      cmd |-> <<>>]
Command(c) == [exc |-> "none", cmd |-> c]

V_output_set       == <<"o","u","t","p","u","t","_","s","e","t">>
V_input_get        == <<"i","n","p","u","t","_","g","e","t">>
V_input_set_mode   == <<"i","n","p","u","t","_","s","e","t","_","m","o","d","e">>
V_counter_set_mode == <<"c","o","u","n","t","e","r","_","s","e","t","_","m","o","d","e">>
V_motor_set        == <<"m","o","t","o","r","_","s","e","t">>
V_motor_counter    == <<"m","o","t","o","r","_","c","o","u","n","t","e","r">>
V_ftduino_id_get   == <<"f","t","d","u","i","n","o","_","i","d","_","g","e","t">>
V_counter_get_state ==
    <<"c","o","u","n","t","e","r","_","g","e","t","_","s","t","a","t","e">>
V_motor_counter_active ==
    <<"m","o","t","o","r","_","c","o","u","n","t","e","r","_","a","c","t","i","v","e">>

\* The default of motor_set used for outputs: pwm = MAX
DefaultOutputPwm_max(mode) == PyInt(MAX)

\* pwm = MAX if mode == HIGH else MIN
DefaultOutputPwm(mode) == IF PyEq(mode, PyInt(HIGH)) THEN PyInt(MAX) ELSE PyInt(MIN)

\* A range check in place of the membership test: if mode < OFF
OutputModeRejected_range(mode) == IsNum(mode) /\ mode.v < OFF

\* mode not in (OFF, HIGH, LOW)
OutputModeRejected(mode) == ~PyIn(mode, VALID_OUTPUT_MODES)

OutputSetRequest(port, mode, pwm) ==
    IF OutputModeRejected(mode) THEN Invalid("ValueError")
    ELSE Command(Format(V_output_set,
                        <<port, mode, IF pwm.t = "none" THEN DefaultOutputPwm(mode) ELSE pwm>>))

InputGetRequest(port) == Command(Format(V_input_get, <<port>>))

\* mode.lower() not in _VALID_INPUT_MODES
InputModeRejected(mode) == ~PyIn(PyStr(Lower(mode.v)), VALID_INPUT_MODES)

InputSetModeRequest(port, mode) ==
    IF InputModeRejected(mode) THEN Invalid("ValueError")
    ELSE Command(Format(V_input_set_mode, <<port, mode>>))

\* mode.lower() not in _VALID_COUNTER_MODES
CounterModeRejected(mode) == ~PyIn(PyStr(Lower(mode.v)), VALID_COUNTER_MODES)

CounterSetModeRequest(port, mode) ==
    IF CounterModeRejected(mode) THEN Invalid("ValueError")
    ELSE Command(Format(V_counter_set_mode, <<port, mode>>))

\* mode.lower() not in _VALID_MOTOR_DIRECTIONS
MotorModeRejected(mode) == ~PyIn(PyStr(Lower(mode.v)), VALID_MOTOR_DIRECTIONS)

\* The default of output_set used for motors: pwm = MAX if mode == HIGH else MIN
MotorSetRequest_outputdefault(port, mode, pwm) ==
    IF MotorModeRejected(mode) THEN Invalid("ValueError")
    ELSE Command(Format(V_motor_set,
                        <<port, mode, IF pwm.t = "none" THEN DefaultOutputPwm(mode) ELSE pwm>>))

MotorSetRequest(port, mode, pwm) ==
    IF MotorModeRejected(mode) THEN Invalid("ValueError")
    ELSE Command(Format(V_motor_set,
                        <<port, mode, IF pwm.t = "none" THEN PyInt(MAX) ELSE pwm>>))

MotorCounterRequest(port, mode, pwm, counter) ==
    IF MotorModeRejected(mode) THEN Invalid("ValueError")
    ELSE Command(Format(V_motor_counter, <<port, mode, pwm, counter>>))

FtduinoIdGetRequest == Command(V_ftduino_id_get)

CounterGetStateRequest(port) == Command(Format(V_counter_get_state, <<port>>))

MotorCounterActiveRequest(port) == Command(Format(V_motor_counter_active, <<port>>))

\* mode, pwm = value: a 2-tuple or a str of two characters unpacks; a str of
\* another length raises ValueError, a value that is not iterable TypeError.
Unpack(value) ==
    CASE value.t = "tuple" ->
            [exc |-> "none", mode |-> value.v[1], pwm |-> value.v[2]]
      [] value.t = "str" /\ Len(value.v) = 2 ->
            [exc |-> "none", mode |-> PyStr(<<value.v[1]>>), pwm |-> PyStr(<<value.v[2]>>)]
      [] value.t = "str" -> [exc |-> "ValueError", mode |-> PyNone, pwm |-> PyNone]
      [] OTHER           -> [exc |-> "TypeError",  mode |-> PyNone, pwm |-> PyNone]

\* A truth test in place of the comparisons: mode = HIGH if value else OFF
SetOutputArgs_truthy(value) ==
    IF (IsNum(value) /\ value.v # 0) \/ value.t = "tuple" \/ (value.t = "str" /\ value.v # <<>>)
    THEN [exc |-> "none", mode |-> PyInt(HIGH), pwm |-> PyNone]
    ELSE [exc |-> "none", mode |-> PyInt(OFF), pwm |-> PyNone]

\* _set_output(port, value): the mode and pwm it hands to output_set
SetOutputArgs(value) ==
    IF PyIn(value, <<PyBool(TRUE), PyInt(HIGH)>>)
    THEN [exc |-> "none", mode |-> PyInt(HIGH), pwm |-> PyNone]
    ELSE IF value.t = "bool" /\ value.v = 0
    THEN [exc |-> "none", mode |-> PyInt(OFF), pwm |-> PyNone]
    ELSE IF PyIn(value, <<PyInt(OFF), PyInt(LOW)>>)
    THEN [exc |-> "none", mode |-> value, pwm |-> PyNone]
    ELSE Unpack(value)

SetOutputRequest(port, value) ==
    LET a == SetOutputArgs(value) IN
        IF a.exc # "none" THEN Invalid(a.exc) ELSE OutputSetRequest(port, a.mode, a.pwm)

----------------------------------------------------------------------------
(* comm(): the line written and the value returned for the line read *)

\* The command written without a line terminator
CommLine_bare(cmd) == cmd

\* cmd += '\n'
CommLine(cmd) == cmd \o <<NL>>

\* comm() without its test for the bare line terminator
CommReturn_nocheck(data) == PyStr(DropLast2(data))

\* if data == '\n': return None;  return data[:-2]
CommReturn(data) == IF data = <<NL>> THEN PyNone ELSE PyStr(DropLast2(data))

\* What a facade method makes of the value comm() returned.
MethodResult(meth, r) ==
    CASE meth = "input_get"      -> PyIntOf(r)
      [] meth = "ftduino_id_get" -> Ok(r)
      [] meth \in {"counter_get_state", "motor_counter_active"}
                                 -> Ok(PyBool(PyEq(r, PyStr(<<"1">>))))
      [] OTHER                   -> Ok(PyNone)

----------------------------------------------------------------------------
(* Inputs: the arguments the client passes, and what the device may send *)

T_O1 == <<"O","1">>
T_I1 == <<"I","1">>
T_C1 == <<"C","1">>
T_M1 == <<"M","1">>
T_X9 == <<"X","9">>

OutputModeArgs  == {PyInt(OFF), PyInt(HIGH), PyInt(LOW), PyInt(28)}
OutputPwmArgs   == {PyNone, PyInt(100), PyInt(600)}
OutputValueArgs == {PyBool(TRUE), PyBool(FALSE), PyInt(OFF), PyInt(HIGH), PyInt(LOW),
                    PyTuple(PyInt(HIGH), PyInt(256)), PyTuple(PyInt(28), PyInt(256)),
                    PyInt(42), PyStr(<<"t","r","u","e">>)}
InputPortArgs   == {PyStr(T_I1), PyStr(T_X9)}
InputModeArgs   == {PyStr(INPUT_MODE_SWITCH), PyStr(<<"V","o","l","t","a","g","e">>),
                    PyStr(<<"i","l","l","e","g","a","l">>)}
CounterModeArgs == {PyStr(COUNTER_EDGE_RISING), PyStr(<<"e","d","g","e">>)}
MotorModeArgs   == {PyStr(MOTOR_LEFT), PyStr(MOTOR_OFF),
                    PyStr(<<"f","o","r","w","a","r","d">>)}
MotorPwmArgs    == {PyNone}
MotorCounterPwmArgs == {PyInt(256)}
StepArgs        == {PyInt(38)}

\* Raw lines the device may send in answer to a command. <<>>: it sends nothing.
Replies ==
    { <<>>, <<NL>>, <<CR, NL>>, <<"0", NL>>, <<"0", CR, NL>>, <<"1", "2", CR, NL>>,
      <<"a", "b", CR, NL>>, <<"7">>, <<"1", CR, NL>>, <<"1", NL>> }

\* What the device may answer to motor_set: nothing, an empty line, a payload.
RoundTripReplies == { <<>>, <<NL>>, <<"a", "b", CR, NL>> }

\* Raw lines a probed device may send in answer to ftduino_id_get.
IdReplies == { <<>>, <<NL>>, <<"A", CR, NL>>, <<"B", CR, NL>> }

\* Names the client looks for.
NameArgs == { <<"A">>, <<"B">> }

DevPrefix == <<"/","d","e","v","/","t","t","y","A","C","M">>

\* lpi.device of the i-th port list_ports.grep() matches
DevPath(i) == DevPrefix \o IntStr(i - 1)

COM9 == <<"C","O","M","9">>

----------------------------------------------------------------------------
(* Initial state: nothing constructed, nothing scanned *)

NoScan ==
    [for |-> "none", arg |-> PyNone, idx |-> 0, path |-> PyNone, raw |-> <<>>,
     name |-> <<>>, exc |-> "none", scoped |-> FALSE]

NoExit == [exc_type |-> "none", reraised |-> "none"]

NoCall == [meth |-> "none", args |-> <<>>, cmd |-> <<>>, tag |-> 0]

Unset == [t |-> "unset", v |-> <<>>]

Outcome(op, r) == [op |-> op, ok |-> r.ok, val |-> r.val, exc |-> r.exc]

\* Nothing is constructed, nothing was scanned, the link is empty.
Unconstructed ==
    /\ devs = 0
    /\ scans = 0
    /\ scan = NoScan
    /\ probes = <<>>
    /\ pairs = <<>>
    /\ dconn = {}
    /\ found = Unset
    /\ conn = "none"
    /\ connPath = PyNone
    /\ opens = <<>>
    /\ scope = "none"
    /\ closes = 0
    /\ withExit = NoExit
    /\ pc = "main"
    /\ calls = 0
    /\ cur = NoCall
    /\ io = <<>>
    /\ commRet = Unset
    /\ out = Outcome("none", Ok(PyNone))
    /\ outbuf = <<>>
    /\ devq = <<>>
    /\ inbuf = <<>>

Init == Unconstructed /\ spy = FALSE /\ history = <<>>

\* The same, with a spy recording the session.
InitSpied == Unconstructed /\ spy = TRUE /\ history = <<>>

----------------------------------------------------------------------------
(* Discovery: the generator ftduino_iter() and its two consumers *)

ConsumerOp == IF scan.for = "find" THEN "ftduino_find_by_name" ELSE "__init__"

\* An exception leaves the generator and, uncaught, its consumer.
ScanRaises(e) ==
    /\ pc' = "main"
    /\ out' = Outcome(ConsumerOp, Raise(e))
    /\ scope' = IF scan.for = "init" THEN "failed" ELSE scope

\* The line taken whole, without the slice
IdName_whole(raw) == raw

\* name = conn.readline().decode('utf-8')[:-2]
IdName(raw) == DropLast2(raw)

\* for lpi in grep(...): path = lpi.device; with serial.Serial(path, ...) as conn:
ftduino_iter_open ==
    /\ pc = "gen_next"
    /\ scan.idx < devs
    /\ LET path == DevPath(scan.idx + 1) IN
         /\ probes' = Append(probes, path)
         /\ \/ /\ dconn' = dconn \cup {path}
               /\ scan' = [scan EXCEPT !.idx = @ + 1, !.path = PyStr(path)]
               /\ pc' = "gen_opened"
               /\ UNCHANGED <<out, scope>>
            \/ /\ ScanRaises("SerialException")
               /\ UNCHANGED <<dconn, scan>>
    /\ UNCHANGED <<devs, scans, pairs, found, conn, connPath, opens, closes, withExit,
                   exchange, link, spying>>

\* reset both buffers, write 'ftduino_id_get\n', read one line
ftduino_iter_exchange ==
    /\ pc = "gen_opened"
    /\ \/ \E raw \in IdReplies : scan' = [scan EXCEPT !.raw = raw, !.name = IdName(raw)]
       \/ scan' = [scan EXCEPT !.exc = "SerialTimeoutException"]
    /\ pc' = "gen_exchanged"
    /\ UNCHANGED <<devs, scans, probes, pairs, dconn, found, lifecycle, exchange, link, out,
                   spying>>

\* A generator that leaves its connection open
CloseProbe_leak(open, path) == open

\* with serial.Serial(...) as conn: leaving the block closes conn
CloseProbe(open, path) == open \ {path}

\* the with block of the generator is left (conn is closed), then: yield path, name
ftduino_iter_yield ==
    /\ pc = "gen_exchanged"
    /\ dconn' = CloseProbe(dconn, scan.path.v)
    /\ IF scan.exc # "none"
       THEN /\ ScanRaises(scan.exc)
            /\ UNCHANGED pairs
       ELSE /\ pairs' = Append(pairs, [path |-> scan.path.v, name |-> scan.name])
            /\ pc' = "gen_yielded"
            /\ UNCHANGED <<out, scope>>
    /\ UNCHANGED <<devs, scans, scan, probes, found, conn, connPath, opens, closes,
                   withExit, exchange, link, spying>>

\* A containment test in place of equality: device_name in name
NameMatches_in(device_name, name) ==
    \E i \in 1..(Len(name) + 1), j \in 0..Len(name) :
        /\ i + Len(device_name) - 1 = j
        /\ SubSeq(name, i, j) = device_name

\* device_name == name
NameMatches(device_name, name) == device_name = name

\* ftduino_find_by_name(name) is called: the for loop creates the generator, which
\* lists the matching ports (each call re-scans the host)
ftduino_find_by_name(name) ==
    /\ pc = "main"
    /\ scope = "none"
    /\ scans < MaxScans
    /\ scans' = scans + 1
    /\ devs' \in 0..MaxDevices
    /\ scan' = [NoScan EXCEPT !.for = "find", !.arg = PyStr(name)]
    /\ probes' = <<>>
    /\ pairs' = <<>>
    /\ found' = Unset
    /\ out' = Outcome("none", Ok(PyNone))
    /\ pc' = "gen_next"
    /\ UNCHANGED <<dconn, lifecycle, exchange, link, spying>>

\* for path, device_name in ftduino_iter(): if device_name == name: return path
find_loop_body ==
    /\ pc = "gen_yielded"
    /\ scan.for = "find"
    /\ LET pair == pairs[Len(pairs)] IN
         IF NameMatches(pair.name, scan.arg.v)
         THEN /\ found' = PyStr(pair.path)
              /\ out' = Outcome("ftduino_find_by_name", Ok(PyStr(pair.path)))
              /\ pc' = "main"
         ELSE /\ pc' = "gen_next"
              /\ UNCHANGED <<found, out>>
    /\ UNCHANGED <<devs, scans, scan, probes, pairs, dconn, lifecycle, exchange, link,
                   spying>>

\* the generator is exhausted: return None
find_not_found ==
    /\ pc = "gen_next"
    /\ scan.for = "find"
    /\ scan.idx >= devs
    /\ found' = PyNone
    /\ out' = Outcome("ftduino_find_by_name", Ok(PyNone))
    /\ pc' = "main"
    /\ UNCHANGED <<devs, scans, scan, probes, pairs, dconn, lifecycle, exchange, link,
                   spying>>

\* The paths a client passes to the constructor: none, a literal, or what
\* ftduino_find_by_name returned.
PathArgs == {PyNone, PyStr(COM9)} \cup (IF found.t = "str" THEN {found} ELSE {})

\* An explicit path.
ExplicitPathArgs == {PyStr(COM9)}

\* BaseFtDuino(path), plain or as the context expression of a with statement
Construct(path, scoped) ==
    /\ pc = "main"
    /\ scope = "none"
    /\ probes' = <<>>
    /\ pairs' = <<>>
    /\ out' = Outcome("none", Ok(PyNone))
    /\ IF path.t = "none"
       THEN /\ scan' = [NoScan EXCEPT !.for = "init", !.scoped = scoped]
            /\ devs' \in 0..MaxDevices
            /\ pc' = "gen_next"
       ELSE /\ scan' = [NoScan EXCEPT !.for = "init", !.arg = path, !.path = path,
                                      !.scoped = scoped]
            /\ pc' = "ctor_open"
            /\ UNCHANGED devs
    /\ UNCHANGED <<scans, dconn, found, lifecycle, exchange, link, spying>>

\* The pair unpacked the wrong way round: name, path = pair
InitPick_swapped(pair) == PyStr(pair.name)

\* path, name = pair
InitPick(pair) == PyStr(pair.path)

\* path, name = next(ftduino_iter())
init_takes_first ==
    /\ pc = "gen_yielded"
    /\ scan.for = "init"
    /\ scan' = [scan EXCEPT !.path = InitPick(pairs[Len(pairs)])]
    /\ pc' = "ctor_open"
    /\ UNCHANGED <<devs, scans, probes, pairs, dconn, found, lifecycle, exchange, link, out,
                   spying>>

\* except StopIteration: pass;  if path is None: raise ValueError('No ftDuino found.')
init_no_device ==
    /\ pc = "gen_next"
    /\ scan.for = "init"
    /\ scan.idx >= devs
    /\ out' = Outcome("__init__", Raise("ValueError"))
    /\ scope' = "failed"
    /\ pc' = "main"
    /\ UNCHANGED <<discovery, conn, connPath, opens, closes, withExit, exchange, link,
                   spying>>

\* self._conn = serial.Serial(path, 115200, timeout=0.1, writeTimeout=0.1)
init_open ==
    /\ pc = "ctor_open"
    /\ opens' = Append(opens, scan.path)
    /\ \/ /\ conn' = "open"
          /\ connPath' = scan.path
          /\ scope' = IF scan.scoped THEN "with" ELSE "plain"
          /\ out' = Outcome("__init__", Ok(PyNone))
       \/ /\ out' = Outcome("__init__", Raise("SerialException"))
          /\ scope' = "failed"
          /\ UNCHANGED <<conn, connPath>>
    /\ pc' = "main"
    /\ UNCHANGED <<discovery, closes, withExit, exchange, link, spying>>

----------------------------------------------------------------------------
(* The facade's calls. A call that passes validation enters comm(), whose   *)
(* four operations on self._conn are steps of their own: the device acts    *)
(* between them.                                                            *)

Event(op, data, src) == [op |-> op, data |-> data, src |-> src]

\* The lines a call handed to write(), and the line it read (if it did read).
Writes(ioLog) ==
    LET ws == SelectSeq(ioLog, LAMBDA e : e.op = "write") IN [i \in 1..Len(ws) |-> ws[i].data]
Reads(ioLog) ==
    LET rs == SelectSeq(ioLog, LAMBDA e : e.op = "readline") IN [i \in 1..Len(rs) |-> rs[i].data]

\* The spy's entry for a call that has ended.
Entry(call, ioLog, ok) ==
    [meth |-> call.meth, args |-> call.args, wrote |-> Writes(ioLog),
     read |-> Reads(ioLog), ok |-> ok]

Noted(call, ioLog, ok) ==
    IF spy THEN Append(history, Entry(call, ioLog, ok)) ELSE history

Begin(meth, args, req) ==
    /\ pc = "main"
    /\ conn = "open"
    /\ spy => Len(history) <= MaxCalls
    /\ io' = <<>>
    /\ commRet' = Unset
    /\ IF req.exc # "none"
       THEN /\ cur' = [meth |-> meth, args |-> args, cmd |-> <<>>, tag |-> 0]
            /\ out' = Outcome(meth, Raise(req.exc))
            /\ pc' = "main"
            /\ history' = Noted(cur', <<>>, FALSE)
            /\ UNCHANGED calls
       ELSE /\ calls < MaxCalls
            /\ calls' = calls + 1
            /\ cur' = [meth |-> meth, args |-> args, cmd |-> req.cmd, tag |-> calls + 1]
            /\ out' = Outcome("none", Ok(PyNone))
            /\ pc' = "reset_in"
            /\ UNCHANGED history
    /\ UNCHANGED <<discovery, lifecycle, link, spy>>

output_set(port, mode, pwm) ==
    Begin("output_set", <<port, mode, pwm>>, OutputSetRequest(port, mode, pwm))

input_get(port) ==
    Begin("input_get", <<port>>, InputGetRequest(port))

input_set_mode(port, mode) ==
    Begin("input_set_mode", <<port, mode>>, InputSetModeRequest(port, mode))

counter_set_mode(port, mode) ==
    Begin("counter_set_mode", <<port, mode>>, CounterSetModeRequest(port, mode))

motor_set(port, mode, pwm) ==
    Begin("motor_set", <<port, mode, pwm>>, MotorSetRequest(port, mode, pwm))

motor_counter(port, mode, pwm, counter) ==
    Begin("motor_counter", <<port, mode, pwm, counter>>,
          MotorCounterRequest(port, mode, pwm, counter))

ftduino_id_get ==
    Begin("ftduino_id_get", <<>>, FtduinoIdGetRequest)

counter_get_state(port) ==
    Begin("counter_get_state", <<port>>, CounterGetStateRequest(port))

motor_counter_active(port) ==
    Begin("motor_counter_active", <<port>>, MotorCounterActiveRequest(port))

\* ftd.o1 = value: the property o1 calls _set_output('O1', value)
set_output(port, value) ==
    Begin("_set_output", <<port, value>>, SetOutputRequest(port, value))

\* Which answers a run of chunks is made of: the call each one answers (tag) and
\* the call during which it reached the host (epoch).
Sources(chunks) ==
    {[tag |-> chunks[i].tag, epoch |-> chunks[i].epoch] : i \in 1..Len(chunks)}

\* A reset that discards nothing
ResetInput_keep(buf) == buf

\* conn.reset_input_buffer(): what is left of the input buffer
ResetInput(buf) == <<>>

comm_reset_input ==
    /\ pc = "reset_in"
    /\ inbuf' = ResetInput(inbuf)
    /\ io' = Append(io, Event("reset_input_buffer", <<>>, Sources(inbuf)))
    /\ pc' = "reset_out"
    /\ UNCHANGED <<discovery, lifecycle, calls, cur, commRet, out, outbuf, devq, spying>>

\* conn.reset_output_buffer()
comm_reset_output ==
    /\ pc = "reset_out"
    /\ outbuf' = <<>>
    /\ io' = Append(io, Event("reset_output_buffer", <<>>, {}))
    /\ pc' = "write"
    /\ UNCHANGED <<discovery, lifecycle, calls, cur, commRet, out, devq, inbuf, spying>>

\* conn.write(cmd.encode('utf-8')): the line is queued, or the write times out
comm_write ==
    /\ pc = "write"
    /\ io' = Append(io, Event("write", CommLine(cur.cmd), {}))
    /\ \/ /\ outbuf' = Append(outbuf, cur.tag)
          /\ pc' = "read"
          /\ UNCHANGED <<out, history>>
       \/ /\ out' = Outcome(cur.meth, Raise("SerialTimeoutException"))
          /\ pc' = "main"
          /\ history' = Noted(cur, io', FALSE)
          /\ UNCHANGED outbuf
    /\ UNCHANGED <<discovery, lifecycle, calls, cur, commRet, devq, inbuf, spy>>

Terminated(chunk) == chunk.data[Len(chunk.data)] = NL

\* The chunks readline() consumes: up to and including the first one that ends
\* a line; all of them when the timeout ends the read.
Taken(buf) ==
    IF \E i \in 1..Len(buf) : Terminated(buf[i])
    THEN CHOOSE i \in 1..Len(buf) :
            /\ Terminated(buf[i])
            /\ \A j \in 1..(i - 1) : ~Terminated(buf[j])
    ELSE Len(buf)

RECURSIVE Bytes(_)
Bytes(chunks) == IF chunks = <<>> THEN <<>> ELSE Head(chunks).data \o Bytes(Tail(chunks))

\* A connection opened without a read timeout (timeout=None)
HasReadTimeout_none == FALSE

\* serial.Serial(path, 115200, timeout=0.1, ...): reads have a timeout
HasReadTimeout == TRUE

\* readline() returns once a line is complete or the timeout has fired.
ReadReturns(buf) == HasReadTimeout \/ \E i \in 1..Len(buf) : Terminated(buf[i])

\* data = conn.readline().decode('utf-8'); the rest of comm() and of the method
comm_readline ==
    /\ pc = "read"
    /\ ReadReturns(inbuf)
    /\ LET n    == Taken(inbuf)
           got  == SubSeq(inbuf, 1, n)
           data == Bytes(got)
           ret  == CommReturn(data)
       IN  /\ inbuf' = SubSeq(inbuf, n + 1, Len(inbuf))
           /\ io' = Append(io, Event("readline", data, Sources(got)))
           /\ commRet' = ret
           /\ out' = Outcome(cur.meth, MethodResult(cur.meth, ret))
           /\ history' = Noted(cur, io', MethodResult(cur.meth, ret).ok)
    /\ pc' = "main"
    /\ UNCHANGED <<discovery, lifecycle, calls, cur, outbuf, devq, spy>>

\* self._conn.close()
close ==
    /\ pc = "main"
    /\ scope = "plain"
    /\ conn = "open"
    /\ conn' = "closed"
    /\ closes' = closes + 1
    /\ out' = Outcome("close", Ok(PyNone))
    /\ UNCHANGED <<discovery, connPath, opens, scope, withExit, exchange, link, pc, spying>>

\* An __exit__ that returns a true value
ExitSuppresses_true == TRUE

\* __exit__ returns None: the with statement re-raises the exception it passed in
ExitSuppresses == FALSE

\* The with block is left, normally or by the exception the last call raised.
with_exit(propagating) ==
    /\ pc = "main"
    /\ scope = "with"
    /\ propagating => ~out.ok
    /\ conn' = "closed"
    /\ closes' = closes + 1
    /\ scope' = "exited"
    /\ withExit' = [exc_type |-> IF propagating THEN out.exc ELSE "none",
                    reraised |-> IF propagating /\ ~ExitSuppresses THEN out.exc ELSE "none"]
    /\ UNCHANGED <<discovery, connPath, opens, exchange, link, pc, out, spying>>

----------------------------------------------------------------------------
(* The serial link and the device *)

\* The host's driver transmits the oldest queued command.
Transmit ==
    /\ conn = "open"
    /\ outbuf # <<>>
    /\ devq' = Append(devq, Head(outbuf))
    /\ outbuf' = Tail(outbuf)
    /\ UNCHANGED <<discovery, lifecycle, exchange, pc, out, inbuf, spying>>

\* The device answers its oldest command with raw (or with nothing); the answer
\* reaches the host's input buffer.
DeviceReply(raw) ==
    /\ conn = "open"
    /\ devq # <<>>
    /\ devq' = Tail(devq)
    /\ inbuf' = IF raw = <<>> THEN inbuf
                ELSE Append(inbuf, [data |-> raw, tag |-> Head(devq), epoch |-> calls])
    /\ UNCHANGED <<discovery, lifecycle, exchange, pc, out, outbuf, spying>>

----------------------------------------------------------------------------

\* A client that names the device path: construction, the calls on the
\* connection with the device answering, and the end of the connection.
Next ==
    \/ \E path \in ExplicitPathArgs, scoped \in BOOLEAN : Construct(path, scoped)
    \/ init_open
    \/ \E mode \in OutputModeArgs, pwm \in OutputPwmArgs : output_set(PyStr(T_O1), mode, pwm)
    \/ \E port \in InputPortArgs : input_get(port)
    \/ \E mode \in InputModeArgs : input_set_mode(PyStr(T_I1), mode)
    \/ \E mode \in CounterModeArgs : counter_set_mode(PyStr(T_C1), mode)
    \/ \E mode \in MotorModeArgs, pwm \in MotorPwmArgs : motor_set(PyStr(T_M1), mode, pwm)
    \/ \E mode \in MotorModeArgs, pwm \in MotorCounterPwmArgs, n \in StepArgs :
          motor_counter(PyStr(T_M1), mode, pwm, n)
    \/ ftduino_id_get
    \/ counter_get_state(PyStr(T_C1))
    \/ motor_counter_active(PyStr(T_M1))
    \/ \E value \in OutputValueArgs : set_output(PyStr(T_O1), value)
    \/ comm_reset_input
    \/ comm_reset_output
    \/ comm_write
    \/ comm_readline
    \/ close
    \/ \E propagating \in BOOLEAN : with_exit(propagating)
    \/ Transmit
    \/ \E raw \in Replies : DeviceReply(raw)

Spec == Init /\ [][Next]_vars

\* The round trip of the motor: a client that only calls motor_set, on a
\* connection whose session a spy records.
NextRoundTrip ==
    \/ \E path \in ExplicitPathArgs : Construct(path, FALSE)
    \/ init_open
    \/ \E mode \in MotorModeArgs, pwm \in MotorPwmArgs : motor_set(PyStr(T_M1), mode, pwm)
    \/ comm_reset_input
    \/ comm_reset_output
    \/ comm_write
    \/ comm_readline
    \/ Transmit
    \/ \E raw \in RoundTripReplies : DeviceReply(raw)

SpecRoundTrip == InitSpied /\ [][NextRoundTrip]_vars

\* The calls that read a reply, on a device that answers or stays silent.
NextLive ==
    \/ \E path \in ExplicitPathArgs : Construct(path, FALSE)
    \/ init_open
    \/ ftduino_id_get
    \/ counter_get_state(PyStr(T_C1))
    \/ comm_reset_input
    \/ comm_reset_output
    \/ comm_write
    \/ comm_readline
    \/ close
    \/ Transmit
    \/ \E raw \in Replies : DeviceReply(raw)

\* comm() is straight-line code on one thread: each of its four operations on
\* self._conn is executed once control has reached it. Nothing is assumed of
\* the device or of the link.
SpecLive ==
    /\ Init
    /\ [][NextLive]_vars
    /\ WF_vars(comm_reset_input)
    /\ WF_vars(comm_reset_output)
    /\ WF_vars(comm_write)
    /\ WF_vars(comm_readline)

\* Discovery: looking a device up by name, and construction with or without a
\* path, up to the facade's connection being opened.
NextDiscovery ==
    \/ \E name \in NameArgs : ftduino_find_by_name(name)
    \/ ftduino_iter_open
    \/ ftduino_iter_exchange
    \/ ftduino_iter_yield
    \/ find_loop_body
    \/ find_not_found
    \/ \E path \in PathArgs, scoped \in BOOLEAN : Construct(path, scoped)
    \/ init_takes_first
    \/ init_no_device
    \/ init_open

SpecDiscovery == Init /\ [][NextDiscovery]_vars

----------------------------------------------------------------------------
(* Vocabulary of the properties *)

\* The current (or last) call has gone through all four operations of comm().
Exchanged == Len(io) = 4

\* The line comm() wrote and the line it read.
Written  == io[3].data
ReadData == io[4].data

EnumMethods == {"output_set", "input_set_mode", "counter_set_mode", "motor_set", "motor_counter"}

\* The closed sets of the wire protocol.
OutputModeSet  == {OFF, HIGH, LOW}
InputModeSet   == {INPUT_MODE_SWITCH, INPUT_MODE_RESISTANCE, INPUT_MODE_VOLTAGE}
CounterModeSet == {COUNTER_EDGE_NONE, COUNTER_EDGE_RISING, COUNTER_EDGE_FALLING,
                   COUNTER_EDGE_ANY}
MotorModeSet   == {MOTOR_OFF, MOTOR_LEFT, MOTOR_RIGHT, MOTOR_BRAKE}

\* The mode (or direction) argument of the current call lies outside the closed
\* set of its method; text is compared without regard to case.
ModeOutsideSet ==
    /\ cur.meth \in EnumMethods
    /\ LET mode == cur.args[2] IN
         CASE cur.meth = "output_set"       -> ~(IsNum(mode) /\ mode.v \in OutputModeSet)
           [] cur.meth = "input_set_mode"   -> Lower(mode.v) \notin InputModeSet
           [] cur.meth = "counter_set_mode" -> Lower(mode.v) \notin CounterModeSet
           [] OTHER                         -> Lower(mode.v) \notin MotorModeSet

----------------------------------------------------------------------------
(* C1: an enum-constrained call (output_set, input_set_mode,                *)
(* counter_set_mode, motor_set, motor_counter) given a value outside its    *)
(* closed set ends with ValueError and has done nothing on the connection:  *)
(* no buffer reset, no write, no read; the connection is open and idle.     *)
C1_InvalidEnumNoIO ==
    ModeOutsideSet =>
        /\ pc = "main"
        /\ io = <<>>
        /\ cur.tag = 0
        /\ out.op = cur.meth =>
              /\ out.exc = "ValueError"
              /\ scope \in {"plain", "with"} => conn = "open"

\* motor_set('M1', 'forward') has raised while an answer to an earlier command
\* lies unread in the input buffer.
C1_Witness ==
    /\ ModeOutsideSet
    /\ cur.meth = "motor_set"
    /\ out.op = "motor_set"
    /\ out.exc = "ValueError"
    /\ conn = "open"
    /\ inbuf # <<>>

----------------------------------------------------------------------------
(* C2: when the line read from the transport is exactly "\n", comm()        *)
(* returns None, and not an empty string, whatever the command.             *)
C2_BareTerminatorIsNone ==
    (Exchanged /\ ReadData = <<NL>>) => (commRet = PyNone /\ commRet # PyStr(<<>>))

C2_Witness ==
    /\ Exchanged
    /\ ReadData = <<NL>>
    /\ cur.meth = "ftduino_id_get"
    /\ out = Outcome("ftduino_id_get", Ok(PyNone))

----------------------------------------------------------------------------
(* C3: for a reply line made of a non-empty payload and the line            *)
(* terminator ("\n" or "\r\n"), comm() returns exactly the payload.         *)

\* The terminator sequence a line ends with.
TerminatorOf(data) ==
    IF Len(data) >= 2 /\ SubSeq(data, Len(data) - 1, Len(data)) = <<CR, NL>>
    THEN <<CR, NL>> ELSE <<NL>>

PayloadOf(data) == SubSeq(data, 1, Len(data) - Len(TerminatorOf(data)))

IsLine(data) == data # <<>> /\ data[Len(data)] = NL

C3_PayloadReturned ==
    (Exchanged /\ IsLine(ReadData) /\ PayloadOf(ReadData) # <<>>)
        => commRet = PyStr(PayloadOf(ReadData))

----------------------------------------------------------------------------
(* C4: a read that times out with no bytes and an explicit empty reply line *)
(* give the caller the same result, the absence value None.                 *)
C4_TimeoutAndEmptyLineCollapse ==
    (Exchanged /\ ReadData \in {<<>>, <<NL>>}) => commRet = PyNone

----------------------------------------------------------------------------
(* C5: input_get(port) writes "input_get <port>\n" and returns the reply    *)
(* parsed as an integer: "0\n" gives 0; an absent or non-numeric reply      *)
(* raises instead of returning a value.                                     *)

Numeric(payload) ==
    payload # <<>> /\ \A i \in 1..Len(payload) : IsDigit(payload[i])

C5_InputGet ==
    (cur.meth = "input_get" /\ Exchanged /\ out.op = "input_get") =>
        /\ Written = V_input_get \o <<" ">> \o cur.args[1].v \o <<NL>>
        /\ ReadData = <<"0", NL>> => out = Outcome("input_get", Ok(PyInt(0)))
        /\ (ReadData \in {<<>>, <<NL>>} \/ (IsLine(ReadData) /\ ~Numeric(PayloadOf(ReadData))))
              => ~out.ok

----------------------------------------------------------------------------
(* C6: a reply to an earlier command is never returned as the result of a   *)
(* later command: whatever the delays, the line a comm() call returns was   *)
(* sent by the device in answer to that same call.                          *)
C6_OnlyOwnReply ==
    Exchanged => \A s \in io[4].src : s.tag = cur.tag

(* C6 as amended: what a comm() call returns reached the host's input       *)
(* buffer during that call; input that was there when the call began is     *)
(* discarded before the write. (A late answer to an earlier command that    *)
(* arrives after the discard is returned as the later command's result.)    *)
C6_OnlyInputOfThisCall ==
    Exchanged => \A s \in io[4].src : s.epoch = cur.tag

\* The second call discarded the answer to the first and returned its own.
C6_Witness ==
    /\ Exchanged
    /\ cur.tag = 2
    /\ io[1].src = {[tag |-> 1, epoch |-> 1]}
    /\ io[4].src = {[tag |-> 2, epoch |-> 2]}

----------------------------------------------------------------------------
(* C7: a connection used through the with statement is closed exactly once  *)
(* on every way out of the block, and an exception raised by a call in the  *)
(* block still propagates after the close.                                  *)
C7_ScopedClose ==
    /\ scope = "with" => (conn = "open" /\ closes = 0)
    /\ scope = "exited" =>
          /\ conn = "closed"
          /\ closes = 1
          /\ withExit.reraised = withExit.exc_type

\* The block was left by the write timeout of a call in it.
C7_Witness ==
    /\ scope = "exited"
    /\ withExit.exc_type = "SerialTimeoutException"
    /\ withExit.reraised = "SerialTimeoutException"
    /\ closes = 1

----------------------------------------------------------------------------
(* C8: ftduino_find_by_name(name) returns the path of the first enumerated  *)
(* pair whose identifier equals name and probes no candidate after it; when *)
(* no identifier equals name it returns None after probing every candidate  *)
(* exactly once.                                                            *)

\* The first n matching ports, in enumeration order.
Candidates(n) == [i \in 1..n |-> DevPath(i)]

C8_FindByName ==
    (pc = "main" /\ out.op = "ftduino_find_by_name" /\ out.ok) =>
        /\ out.val = found
        /\ \A i \in 1..Len(pairs) : pairs[i].path = DevPath(i)
        /\ found.t = "str" =>
              /\ pairs # <<>>
              /\ pairs[Len(pairs)] = [path |-> found.v, name |-> scan.arg.v]
              /\ \A i \in 1..(Len(pairs) - 1) : pairs[i].name # scan.arg.v
              /\ probes = Candidates(Len(pairs))
        /\ found.t # "str" =>
              /\ found = PyNone
              /\ \A i \in 1..Len(pairs) : pairs[i].name # scan.arg.v
              /\ Len(pairs) = devs
              /\ probes = Candidates(devs)

\* The first of two candidates matched: the second was not probed.
C8_Witness ==
    /\ pc = "main"
    /\ out.op = "ftduino_find_by_name"
    /\ devs = 2
    /\ found = PyStr(DevPath(1))
    /\ probes = <<DevPath(1)>>

----------------------------------------------------------------------------
(* C9: constructed without a path, the facade opens its connection on the   *)
(* path of the first pair of the enumeration; when the enumeration produces *)
(* nothing, construction fails with ValueError and opens nothing.           *)
(* Constructed with a path, it does no discovery and opens that path.       *)
C9_Construction ==
    scan.for = "init" =>
        /\ (scan.arg = PyNone /\ opens # <<>>) =>
              /\ pairs # <<>>
              /\ opens = <<PyStr(pairs[1].path)>>
        /\ (scan.arg = PyNone /\ devs = 0 /\ pc = "main") =>
              /\ out = Outcome("__init__", Raise("ValueError"))
              /\ opens = <<>>
              /\ conn = "none"
        /\ scan.arg # PyNone =>
              /\ probes = <<>>
              /\ pairs = <<>>
              /\ opens \in {<<>>, <<scan.arg>>}
        /\ conn = "open" => (opens # <<>> /\ connPath = opens[1])

\* No path given, two candidates: the connection is open on the first.
C9_Witness ==
    /\ scan.for = "init"
    /\ scan.arg = PyNone
    /\ devs = 2
    /\ conn = "open"
    /\ connPath = PyStr(DevPath(1))

----------------------------------------------------------------------------
(* C10: output_set(port, mode) without pwm writes pwm 512 for mode HIGH (1) *)
(* and pwm 0 for OFF (0) and LOW (2); a given pwm is written unchanged. The *)
(* line written is "output_set <port> <mode> <pwm>\n".                      *)

T_512 == <<"5","1","2">>
T_0   == <<"0">>

C10_OutputSetLine ==
    (cur.meth = "output_set" /\ Len(io) >= 3) =>
        LET port == cur.args[1]
            mode == cur.args[2]
            pwm  == cur.args[3]
            sent == IF pwm # PyNone THEN Str(pwm)
                    ELSE IF mode.v = HIGH THEN T_512 ELSE T_0
        IN  /\ mode.v \in {OFF, HIGH, LOW}
            /\ io[3].op = "write"
            /\ Written = V_output_set \o <<" ">> \o port.v \o <<" ">> \o Str(mode)
                           \o <<" ">> \o sent \o <<NL>>

\* output_set('O1', LOW) has written its line with the default pwm.
C10_Witness ==
    /\ cur.meth = "output_set"
    /\ cur.args[2] = PyInt(LOW)
    /\ cur.args[3] = PyNone
    /\ Len(io) >= 3
    /\ Written = V_output_set \o <<" ","O","1"," ","2"," ","0",NL>>

----------------------------------------------------------------------------
(* C11: counter_get_state(port) returns True if and only if the payload of  *)
(* the reply is exactly "1"; for every other reply ("0", other text, an     *)
(* empty line, nothing before the timeout) it returns False and raises      *)
(* nothing. motor_counter_active(port) decides its boolean the same way.    *)

StateMethods == {"counter_get_state", "motor_counter_active"}

\* The payload of what was read: the line without its terminator, or the bytes
\* a timed-out read returned.
ReplyPayload(data) == IF IsLine(data) THEN PayloadOf(data) ELSE data

C11_TrueIffOne ==
    (cur.meth \in StateMethods /\ Exchanged /\ out.op = cur.meth) =>
        /\ out.ok
        /\ out.val = PyBool(ReplyPayload(ReadData) = <<"1">>)

----------------------------------------------------------------------------
(* C12: motor_set(port, LEFT) followed by motor_set(port, OFF), both        *)
(* without pwm, writes exactly the two lines "motor_set <port> left 512\n"  *)
(* and "motor_set <port> off 512\n", in that order, and neither call raises *)
(* whatever the device answered (a payload, an empty line, nothing).        *)

MotorSetLine(port, direction) ==
    V_motor_set \o <<" ">> \o port.v \o <<" ">> \o direction \o <<" ">> \o T_512 \o <<NL>>

\* Entries i and i + 1 of the spy's record are the round trip.
RoundTripAt(i) ==
    /\ i + 1 <= Len(history)
    /\ history[i].meth = "motor_set"
    /\ history[i + 1].meth = "motor_set"
    /\ history[i].args[2] = PyStr(MOTOR_LEFT)
    /\ history[i + 1].args[2] = PyStr(MOTOR_OFF)
    /\ history[i].args[3] = PyNone
    /\ history[i + 1].args[3] = PyNone
    /\ history[i + 1].args[1] = history[i].args[1]

----------------------------------------------------------------------------
(* C13: a facade call whose port is outside the fixed port set (I1..I8,     *)
(* O1..O8, C1..C4, M1..M4) or whose pwm is outside 0..512 ends with the     *)
(* invalid-argument error before any I/O: nothing is written for that call. *)

PortNames ==
    {<<l, DigitChars[k + 1]>> : l \in {"I", "O"}, k \in 1..8}
        \cup {<<l, DigitChars[k + 1]>> : l \in {"C", "M"}, k \in 1..4}

PortMethods == {"output_set", "input_get", "input_set_mode", "counter_set_mode",
                "counter_get_state", "motor_set", "motor_counter",
                "motor_counter_active"}

PwmMethods == {"output_set", "motor_set", "motor_counter"}

BadPort == cur.meth \in PortMethods /\ cur.args[1].v \notin PortNames

BadPwm ==
    /\ cur.meth \in PwmMethods
    /\ cur.args[3].t = "int"
    /\ (cur.args[3].v < MIN \/ cur.args[3].v > MAX)

C13_BadPortOrPwmNoIO ==
    (BadPort \/ BadPwm) =>
        /\ io = <<>>
        /\ cur.tag = 0
        /\ out.op = cur.meth => out.exc = "ValueError"

----------------------------------------------------------------------------
(* C14: assigning to an output accessor (o1..o8): True writes               *)
(* "output_set <port> 1 512\n"; a mode constant OFF, HIGH or LOW writes     *)
(* that mode with its default pwm; a (mode, pwm) pair writes that mode and  *)
(* pwm once the mode is validated; any other value (42, 'true') ends with   *)
(* TypeError or ValueError and nothing is written. (False: see C15.)        *)

IsTrue(x)  == x.t = "bool" /\ x.v = 1
IsFalse(x) == x.t = "bool" /\ x.v = 0

OutputSetLine(port, mode, pwm) ==
    V_output_set \o <<" ">> \o port.v \o <<" ">> \o mode \o <<" ">> \o pwm \o <<NL>>

\* The call has passed validation and, once it has written, wrote this line.
Writes1(line) ==
    /\ cur.tag > 0
    /\ Len(io) >= 3 => (io[3].op = "write" /\ Written = line)

\* The call ended with one of these exceptions and did nothing on the connection.
FailsUnwritten(excs) ==
    /\ cur.tag = 0
    /\ io = <<>>
    /\ pc = "main"
    /\ out.op = cur.meth => out.exc \in excs

C14_OutputAccessor ==
    cur.meth = "_set_output" =>
        LET port  == cur.args[1]
            value == cur.args[2]
        IN  CASE IsTrue(value)  -> Writes1(OutputSetLine(port, <<"1">>, T_512))
              [] IsFalse(value) -> TRUE
              [] value.t = "int" /\ value.v \in OutputModeSet ->
                    Writes1(OutputSetLine(port, IntStr(value.v),
                                          IF value.v = HIGH THEN T_512 ELSE T_0))
              [] value.t = "tuple" /\ value.v[1].t = "int" /\ value.v[1].v \in OutputModeSet ->
                    Writes1(OutputSetLine(port, IntStr(value.v[1].v), Str(value.v[2])))
              [] value.t = "tuple" -> FailsUnwritten({"ValueError"})
              [] OTHER -> FailsUnwritten({"TypeError", "ValueError"})

\* ftd.o1 = HIGH, 256 has written its line.
C14_Witness ==
    /\ cur.meth = "_set_output"
    /\ cur.args[2].t = "tuple"
    /\ Len(io) >= 3
    /\ Written = V_output_set \o <<" ","O","1"," ","1"," ","2","5","6",NL>>

----------------------------------------------------------------------------
(* C15: assigning False to an output accessor sets the output to LOW with   *)
(* the minimum pwm: the line written is "output_set <port> 2 0\n".          *)
C15_FalseIsLow ==
    (cur.meth = "_set_output" /\ IsFalse(cur.args[2])) =>
        Writes1(OutputSetLine(cur.args[1], IntStr(LOW), IntStr(MIN)))

----------------------------------------------------------------------------
(* C16: during enumeration, a matching device that does not answer          *)
(* ftduino_id_get before the timeout, or answers with an empty line, still  *)
(* yields a (path, name) pair, with an empty name; nothing is raised and    *)
(* the enumeration can go on to the next candidate.                         *)

\* The device sent nothing, or an empty line.
Silent(raw) == raw \in {<<>>, <<NL>>, <<CR, NL>>}

C16_SilentDeviceEmptyName ==
    /\ (pc = "gen_yielded" /\ Silent(scan.raw)) =>
          /\ pairs[Len(pairs)] = [path |-> scan.path.v, name |-> <<>>]
          /\ scan.exc = "none"
          /\ out.ok
    /\ (pc = "gen_yielded" /\ scan.for = "find" /\ pairs[Len(pairs)].name = <<>>) =>
          ENABLED (find_loop_body /\ pc' = "gen_next")
    /\ (pc = "gen_next" /\ scan.idx < devs) => ENABLED ftduino_iter_open

\* The first candidate stayed silent; the second was probed and matched.
C16_Witness ==
    /\ pc = "main"
    /\ out.op = "ftduino_find_by_name"
    /\ Len(pairs) = 2
    /\ pairs[1] = [path |-> DevPath(1), name |-> <<>>]
    /\ found = PyStr(DevPath(2))

----------------------------------------------------------------------------
(* C17: every call that passes validation (motor_counter included) does     *)
(* exactly one exchange on the connection, in this order: discard the input *)
(* buffer, discard the output buffer, one write of the command line ending  *)
(* in "\n", one read of one line; then the connection is idle. The command  *)
(* is never written twice, and at most one command awaits its reply.        *)

ExchangeOps == <<"reset_input_buffer", "reset_output_buffer", "write", "readline">>

Ops(ioLog) == [i \in 1..Len(ioLog) |-> ioLog[i].op]

\* The connection's two states.
AwaitingReply == pc = "read"
Idle          == pc = "main"

\* What the call has done so far is the beginning of one exchange, and the
\* client is where that beginning leaves it.
OneExchangeSoFar ==
    /\ Len(io) <= 4
    /\ Ops(io) = SubSeq(ExchangeOps, 1, Len(io))
    /\ Len(io) >= 3 => Written = cur.cmd \o <<NL>>
    /\ pc = "reset_in"  => Len(io) = 0
    /\ pc = "reset_out" => Len(io) = 1
    /\ pc = "write"     => Len(io) = 2
    /\ AwaitingReply    => Len(io) = 3

C17_OneExchangePerCall ==
    cur.tag > 0 =>
        /\ OneExchangeSoFar
        /\ Idle => Len(io) = 4

(* C17 as amended: ... one read of one line, unless the write itself raises *)
(* (a write timeout): that call ends with the exception after its write and *)
(* reads nothing. In both cases the connection is idle again, the command   *)
(* was written once, and at most one command awaits its reply.              *)
C17_OneExchangeUnlessWriteRaises ==
    cur.tag > 0 =>
        /\ OneExchangeSoFar
        /\ Idle =>
              \/ Len(io) = 4
              \/ /\ Len(io) = 3
                 /\ out.op = cur.meth => out.exc = "SerialTimeoutException"
        /\ (Idle /\ out.op = cur.meth /\ out.exc # "SerialTimeoutException") => Len(io) = 4

\* motor_counter returned after a read that timed out: one write, one read.
C17_Witness ==
    /\ cur.meth = "motor_counter"
    /\ Idle
    /\ Ops(io) = ExchangeOps
    /\ ReadData = <<>>
    /\ out = Outcome("motor_counter", Ok(PyNone))

----------------------------------------------------------------------------
(* C18: during enumeration at most one discovery connection is open, and    *)
(* each candidate's connection is closed before its pair is yielded, also   *)
(* when the exchange raises: none is open while the generator is suspended, *)
(* after the enumeration was abandoned or has failed, or when the facade    *)
(* opens its own connection.                                                *)
C18_ProbeConnectionsClosed ==
    /\ Cardinality(dconn) <= 1
    /\ dconn # {} => (pc \in {"gen_opened", "gen_exchanged"} /\ dconn = {scan.path.v})
    /\ pc \in {"gen_yielded", "gen_next", "ctor_open", "main"} => dconn = {}
    /\ conn = "open" => dconn = {}

\* The exchange with the second candidate raised; the enumeration has ended.
C18_Witness ==
    /\ pc = "main"
    /\ out.exc = "SerialTimeoutException"
    /\ out.op \in {"ftduino_find_by_name", "__init__"}
    /\ Len(probes) = 2
    /\ Len(pairs) = 1
    /\ dconn = {}

----------------------------------------------------------------------------
(* C19: every line written by input_set_mode, counter_set_mode, motor_set   *)
(* or motor_counter carries a mode token of the protocol's closed set       *)
(* ({switch,resistance,voltage}, {none,rising,falling,any},                 *)
(* {off,left,right,brake}); every line written by output_set carries a mode *)
(* token in {0,1,2}: an accepted argument never puts another token on the   *)
(* wire.                                                                    *)

\* s.split(' ')
RECURSIVE Tokens(_)
Tokens(s) ==
    IF \E i \in 1..Len(s) : s[i] = " "
    THEN LET i == CHOOSE k \in 1..Len(s) : s[k] = " " /\ \A j \in 1..(k - 1) : s[j] # " "
         IN  <<SubSeq(s, 1, i - 1)>> \o Tokens(SubSeq(s, i + 1, Len(s)))
    ELSE <<s>>

\* The third word of a command line: "<verb> <port> <mode> ...\n"
ModeToken(line) == Tokens(SubSeq(line, 1, Len(line) - 1))[3]

C19_ModeTokenInClosedSet ==
    (cur.meth \in EnumMethods /\ Len(io) >= 3) =>
        LET token == ModeToken(Written) IN
            CASE cur.meth = "output_set"       -> token \in {IntStr(m) : m \in OutputModeSet}
              [] cur.meth = "input_set_mode"   -> token \in InputModeSet
              [] cur.meth = "counter_set_mode" -> token \in CounterModeSet
              [] OTHER                         -> token \in MotorModeSet

----------------------------------------------------------------------------
(* C20: every comm() call eventually returns to its caller, whatever the    *)
(* device does: when no line terminator arrives, the read ends at its       *)
(* timeout with what was buffered (possibly nothing). The client never      *)
(* waits forever for a reply.                                               *)

InComm == pc \in {"reset_in", "reset_out", "write", "read"}

HasLine(buf) == \E i \in 1..Len(buf) : Terminated(buf[i])

\* A read that ends without a complete line hands over all that was buffered.
TimedOutReadTakesAll ==
    (AwaitingReply /\ pc' = "main" /\ ~HasLine(inbuf)) =>
        /\ inbuf' = <<>>
        /\ io'[4].data = Bytes(inbuf)

====
